---- MODULE Spec2Model ----
(***************************************************************************)
(* Build-event notification worker: the queue handler of src/index.ts and  *)
(* the fan-out dispatch of notificationManager (sendNotifications), with   *)
(* the per-platform notifiers.  The handler is a single async function;    *)
(* every action below is one run of synchronous code between two awaits,   *)
(* or the settling of one outstanding network call while the handler is    *)
(* suspended.                                                              *)
(***************************************************************************)
EXTENDS Naturals, Sequences, FiniteSets

(* ------------------------------ bounds -------------------------------- *)

\* Largest batch handed to the queue handler.
MaxBatch == 2

\* Largest number of injected failures (fetch error, builder exception,
\* failed webhook response) in one run of the handler.
MaxFaults == 2

(* --------------------------- static registry -------------------------- *)

\* The notifier registry, in iteration order.
NOTIFIERS == <<"Slack", "Lark", "Discord">>

Platforms == {NOTIFIERS[n] : n \in 1..Len(NOTIFIERS)}

\* Every environment: the set of platforms whose webhook URL is a non-empty
\* string (an absent and an empty URL are both falsy).
Envs == SUBSET Platforms

(* ------------------------------- events -------------------------------- *)

\* shape: which of the required parts of the message body are usable.
\*   "ok"            type, payload and metadata present, type a string
\*   "noType" ...    the named part is missing (null, undefined or "")
\*   "typeNotString" type is truthy but has no includes() method
\* type: the lifecycle word the event type contains.
\* outcome: payload.buildOutcome ("null" when absent).
Event(s, t, o) == [shape |-> s, type |-> t, outcome |-> o]

Events ==
    { Event("noType", "none", "null"),
      Event("noPayload", "succeeded", "null"),
      Event("noMetadata", "failed", "failure"),
      Event("typeNotString", "none", "success"),
      Event("ok", "started", "null"),
      Event("ok", "queued", "null"),
      Event("ok", "succeeded", "success"),
      Event("ok", "failed", "failure"),
      Event("ok", "failed", "cancelled"),
      Event("ok", "other", "null") }

Batches == UNION { [1..n -> Events] : n \in 0..MaxBatch }

\* What the webhook endpoint can answer: 2xx, non-2xx, or no answer at all
\* (fetch itself rejects).
Responses == {"ok", "non2xx", "networkError"}

VARIABLES
    env,          \* platforms with a webhook URL configured
    batch,        \* batch.messages, the bodies in order
    pc,           \* where the queue handler is
    i,            \* index of the message the for-loop is at
    k,            \* index into NOTIFIERS inside sendNotifications
    data,         \* the NotificationData handed to sendNotifications
    task,         \* task[m][p]: the promise pushed for platform p, event m
    sendState,    \* sendState[m][p]: what became of p's build-and-send
    attempts,     \* attempts[m][p]: times p's build-and-send was started
    calls,        \* calls[m][p]: webhook POSTs issued to p for event m
    payloadKind,  \* payloadKind[m][p]: message kind of the POSTed payload
    urlFetches,   \* urlFetches[m]: calls of fetchBuildUrls for event m
    logFetches,   \* logFetches[m]: calls of fetchBuildLogs for event m
    fetchResult,  \* fetchResult[m]: "none", "ok" or "failed"
    completed,    \* completed[m]: how sendNotifications ended for event m
    acks,         \* acks[m]: times message m was acknowledged
    logged,       \* console.error / console.warn / console.log records
    faults        \* failures injected so far

VARIABLES
    nd,           \* the NotificationData handed to the payload builders
    built,        \* built[p]: the payload platform p's builder returned
    logLines,     \* the log lines handed to extractBuildError
    extracted     \* what extractBuildError returned for them

\* The state of the payload builders and of the error extractor when they
\* are exercised on their own.
pureVars == <<nd, built, logLines, extracted>>

queueVars == <<env, batch, pc, i, k, data, task, sendState, attempts, calls,
               payloadKind, urlFetches, logFetches, fetchResult, completed,
               acks, logged, faults>>

vars == <<queueVars, pureVars>>

Msgs == 1..Len(batch)

NoData == [previewUrl |-> "null", liveUrl |-> "null", logs |-> "empty"]

(* ------------------------- index.ts: predicates ------------------------ *)

hasWebhookAlways(e) == TRUE

\* env.SLACK_WEBHOOK_URL || env.LARK_WEBHOOK_URL || env.DISCORD_WEBHOOK_URL
hasWebhook(e) == e # {}

IsValidTypeOnly(ev) == ev.shape # "noType"

\* !event?.type || !event?.payload || !event?.metadata, negated
IsValid(ev) == ev.shape \notin {"noType", "noPayload", "noMetadata"}

\* event.type.includes(...) raises a TypeError when type has no includes()
TypeCheckThrows(ev) == ev.shape = "typeNotString"

IsSkippedStartedOnly(ev) == ev.type = "started"

\* event.type.includes("started") || event.type.includes("queued")
IsSkipped(ev) == ev.type \in {"started", "queued"}

getBuildStatusCancelledApart(ev) ==
    [isSucceeded |-> ev.outcome = "success",
     isFailed    |-> ev.outcome = "failure",
     isCancelled |-> ev.outcome = "cancelled"]

\* helpers.getBuildStatus: the status tag of an event.
getBuildStatus(ev) ==
    [isSucceeded |-> ev.outcome = "success",
     isFailed    |-> ev.outcome \in {"failure", "cancelled"},
     isCancelled |-> ev.outcome = "cancelled"]

NeedsUrls(st) == st.isSucceeded

NeedsLogsAnyFailure(st) == ~st.isSucceeded /\ st.isFailed

\* else if (status.isFailed && !status.isCancelled)
NeedsLogs(st) == ~st.isSucceeded /\ st.isFailed /\ ~st.isCancelled

\* api.fetchBuildUrls / api.fetchBuildLogs: what they hand back when the
\* build API answers (net = "ok") and when it does not.
FetchRejectsOnError(net) == net # "ok"

FetchRejects(net) == FALSE

fetchBuildUrls(net) ==
    IF net = "ok" THEN [previewUrl |-> "url", liveUrl |-> "url"]
                  ELSE [previewUrl |-> "null", liveUrl |-> "null"]

fetchBuildLogs(net) == IF net = "ok" THEN "lines" ELSE "empty"

\* let previewUrl = null, liveUrl = null, logs = []; then the branch taken
AssembleData(st, net) ==
    IF NeedsUrls(st)
    THEN [previewUrl |-> fetchBuildUrls(net).previewUrl,
          liveUrl    |-> fetchBuildUrls(net).liveUrl,
          logs       |-> "empty"]
    ELSE IF NeedsLogs(st)
    THEN [previewUrl |-> "null", liveUrl |-> "null",
          logs |-> fetchBuildLogs(net)]
    ELSE NoData

QueueRethrows == FALSE

\* the catch clause around the body of the for-loop
QueueCatches == TRUE

AckDropped(a, m) == a

\* message.ack()
Ack(a, m) == [a EXCEPT ![m] = @ + 1]

(* -------------------- notifiers: buildPayload / send ------------------- *)

\* SlackNotifier.buildPayload: which message builder is chosen.
SlackKind(st) ==
    IF st.isSucceeded THEN "succeeded"
    ELSE IF st.isFailed THEN "failed"
    ELSE IF st.isCancelled THEN "cancelled"
    ELSE "fallback"

\* DiscordNotifier.buildPayload: which message builder is chosen.
DiscordKind(st) ==
    IF st.isSucceeded THEN "succeeded"
    ELSE IF st.isFailed THEN "failed"
    ELSE IF st.isCancelled THEN "cancelled"
    ELSE "fallback"

\* LarkNotifier.buildPayload: the four message kinds by status.
LarkKind(st) ==
    IF st.isSucceeded THEN "succeeded"
    ELSE IF st.isCancelled THEN "cancelled"
    ELSE IF st.isFailed THEN "failed"
    ELSE "fallback"

buildPayload(p, ev) ==
    CASE p = "Slack"   -> SlackKind(getBuildStatus(ev))
      [] p = "Lark"    -> LarkKind(getBuildStatus(ev))
      [] p = "Discord" -> DiscordKind(getBuildStatus(ev))

TitleAlwaysProduction(kind, isProduction) ==
    CASE kind = "succeeded" -> "Production Deploy"
      [] kind = "failed"    -> "Build Failed"
      [] kind = "cancelled" -> "Build Cancelled"
      [] kind = "fallback"  -> "Build Event"

\* The heading each message builder writes.
Title(kind, isProduction) ==
    CASE kind = "succeeded" -> IF isProduction THEN "Production Deploy"
                                               ELSE "Preview Deploy"
      [] kind = "failed"    -> "Build Failed"
      [] kind = "cancelled" -> "Build Cancelled"
      [] kind = "fallback"  -> "Build Event"

\* Only buildFailureMessage renders the extracted error in a code block.
HasErrorBlock(kind) == kind = "failed"

\* Notifier.send: resolves on a 2xx answer, throws on anything else.
SendResult(resp) == IF resp = "ok" THEN "ok" ELSE "failed"

(* ------------------------- sendNotifications --------------------------- *)

ConfiguredAlways(e, p) == TRUE

\* if (!webhookUrl) continue, negated
Configured(e, p) == p \in e

TaskOutcomeHangsOnFailure(r) == IF r = "ok" THEN "fulfilled" ELSE "pending"

TaskOutcomeNoCatch(r) == IF r = "ok" THEN "fulfilled" ELSE "rejected"

\* The async wrapper's try/catch: whatever happened inside, its promise
\* fulfils.
TaskOutcome(r) == "fulfilled"

PromiseAny(ts) ==
    IF "rejected" \in ts THEN "rejected"
    ELSE IF "fulfilled" \in ts \/ ts = {} THEN "fulfilled"
    ELSE "pending"

\* Promise.all over the pushed promises: rejects with the first rejection,
\* fulfils once every one has fulfilled.
PromiseAll(ts) ==
    IF "rejected" \in ts THEN "rejected"
    ELSE IF "pending" \in ts THEN "pending"
    ELSE "fulfilled"

\* The promises array of event m.
Promises(m) == {task[m][p] : p \in {q \in Platforms : task[m][q] # "none"}}

SuspendedInLoop(where) == where \in {"awaitFetch", "awaitAll", "loop"}

\* The handler has yielded to the event loop: it is at one of its awaits.
Suspended(where) == where \in {"awaitFetch", "awaitAll"}

Log(level, what, m, p) == [level |-> level, what |-> what, m |-> m, p |-> p]

(* -------------------------------- Init --------------------------------- *)

Init ==
    /\ env \in Envs
    /\ batch \in Batches
    /\ pc = "start"
    /\ i = 1
    /\ k = 1
    /\ data = NoData
    /\ task = [m \in 1..Len(batch) |-> [p \in Platforms |-> "none"]]
    /\ sendState = [m \in 1..Len(batch) |-> [p \in Platforms |-> "none"]]
    /\ attempts = [m \in 1..Len(batch) |-> [p \in Platforms |-> 0]]
    /\ calls = [m \in 1..Len(batch) |-> [p \in Platforms |-> 0]]
    /\ payloadKind = [m \in 1..Len(batch) |-> [p \in Platforms |-> "none"]]
    /\ urlFetches = [m \in 1..Len(batch) |-> 0]
    /\ logFetches = [m \in 1..Len(batch) |-> 0]
    /\ fetchResult = [m \in 1..Len(batch) |-> "none"]
    /\ completed = [m \in 1..Len(batch) |-> "none"]
    /\ acks = [m \in 1..Len(batch) |-> 0]
    /\ logged = {}
    /\ faults = 0
    /\ nd = "none"
    /\ built = <<>>
    /\ logLines = <<>>
    /\ extracted = <<>>

dispatchVars == <<task, sendState, attempts, calls, payloadKind>>
fetchVars == <<urlFetches, logFetches, fetchResult>>
inputVars == <<env, batch>>

(* ------------------------- queue(batch, env) --------------------------- *)

\* No webhook configured: log the error, acknowledge every message, return.
NoWebhookReturn ==
    /\ UNCHANGED pureVars
    /\ pc = "start"
    /\ ~hasWebhook(env)
    /\ logged' = logged \cup {Log("error", "noWebhook", 0, "")}
    /\ acks' = [m \in Msgs |-> Ack(acks, m)[m]]
    /\ pc' = "returned"
    /\ UNCHANGED <<inputVars, i, k, data, dispatchVars, fetchVars, completed,
                   faults>>

\* At least one webhook configured: enter the for-loop over the messages.
EnterLoop ==
    /\ UNCHANGED pureVars
    /\ pc = "start"
    /\ hasWebhook(env)
    /\ pc' = "message"
    /\ UNCHANGED <<inputVars, i, k, data, dispatchVars, fetchVars, completed,
                   acks, logged, faults>>

\* An exception inside the try block of message i reaches the catch clause:
\* it is logged, the message acknowledged, and the loop goes on.
Caught ==
    IF QueueCatches
    THEN /\ logged' = logged \cup {Log("error", "processing", i, "")}
         /\ acks' = Ack(acks, i)
         /\ i' = i + 1
         /\ pc' = "message"
    ELSE /\ pc' = "raised"
         /\ UNCHANGED <<logged, acks, i>>

\* Invalid event structure: log, ack, continue.
SkipInvalid ==
    /\ UNCHANGED pureVars
    /\ pc = "message"
    /\ i \in Msgs
    /\ ~IsValid(batch[i])
    /\ logged' = logged \cup {Log("error", "invalid", i, "")}
    /\ acks' = Ack(acks, i)
    /\ i' = i + 1
    /\ UNCHANGED <<inputVars, pc, k, data, dispatchVars, fetchVars, completed,
                   faults>>

\* event.type.includes throws: the catch clause takes over.
TypeCheckRaises ==
    /\ UNCHANGED pureVars
    /\ pc = "message"
    /\ i \in Msgs
    /\ IsValid(batch[i])
    /\ TypeCheckThrows(batch[i])
    /\ Caught
    /\ UNCHANGED <<inputVars, k, data, dispatchVars, fetchVars, completed,
                   faults>>

\* started / queued: ack, continue.
SkipStartedQueued ==
    /\ UNCHANGED pureVars
    /\ pc = "message"
    /\ i \in Msgs
    /\ IsValid(batch[i])
    /\ ~TypeCheckThrows(batch[i])
    /\ IsSkipped(batch[i])
    /\ acks' = Ack(acks, i)
    /\ i' = i + 1
    /\ UNCHANGED <<inputVars, pc, k, data, dispatchVars, fetchVars, completed,
                   logged, faults>>

Notifiable(ev) == IsValid(ev) /\ ~TypeCheckThrows(ev) /\ ~IsSkipped(ev)

\* Succeeded: call fetchBuildUrls and await it.
BeginFetchUrls ==
    /\ UNCHANGED pureVars
    /\ pc = "message"
    /\ i \in Msgs
    /\ Notifiable(batch[i])
    /\ NeedsUrls(getBuildStatus(batch[i]))
    /\ urlFetches' = [urlFetches EXCEPT ![i] = @ + 1]
    /\ pc' = "awaitFetch"
    /\ UNCHANGED <<inputVars, i, k, data, dispatchVars, logFetches,
                   fetchResult, completed, acks, logged, faults>>

\* Failed and not cancelled: call fetchBuildLogs and await it.
BeginFetchLogs ==
    /\ UNCHANGED pureVars
    /\ pc = "message"
    /\ i \in Msgs
    /\ Notifiable(batch[i])
    /\ ~NeedsUrls(getBuildStatus(batch[i]))
    /\ NeedsLogs(getBuildStatus(batch[i]))
    /\ logFetches' = [logFetches EXCEPT ![i] = @ + 1]
    /\ pc' = "awaitFetch"
    /\ UNCHANGED <<inputVars, i, k, data, dispatchVars, urlFetches,
                   fetchResult, completed, acks, logged, faults>>

\* Neither branch: sendNotifications is entered with null URLs, no logs.
DispatchWithoutFetch ==
    /\ UNCHANGED pureVars
    /\ pc = "message"
    /\ i \in Msgs
    /\ Notifiable(batch[i])
    /\ ~NeedsUrls(getBuildStatus(batch[i]))
    /\ ~NeedsLogs(getBuildStatus(batch[i]))
    /\ data' = AssembleData(getBuildStatus(batch[i]), "ok")
    /\ k' = 1
    /\ pc' = "loop"
    /\ UNCHANGED <<inputVars, i, dispatchVars, fetchVars, completed, acks,
                   logged, faults>>

\* The awaited fetch settles; the handler resumes and enters
\* sendNotifications (or its catch clause, should the fetcher reject).
FetchSettles ==
    /\ UNCHANGED pureVars
    /\ pc = "awaitFetch"
    /\ \E net \in {"ok", "error"} :
         /\ net = "error" => faults < MaxFaults
         /\ faults' = IF net = "error" THEN faults + 1 ELSE faults
         /\ fetchResult' = [fetchResult EXCEPT
                              ![i] = IF net = "ok" THEN "ok" ELSE "failed"]
         /\ IF FetchRejects(net)
            THEN /\ Caught
                 /\ UNCHANGED <<data, k>>
            ELSE /\ data' = AssembleData(getBuildStatus(batch[i]), net)
                 /\ k' = 1
                 /\ pc' = "loop"
                 /\ UNCHANGED <<i, acks, logged>>
    /\ UNCHANGED <<inputVars, dispatchVars, urlFetches, logFetches, completed>>

(* ---------------------- sendNotifications(data, env) ------------------ *)

\* for (const {notifier, webhookUrlKey} of NOTIFIERS): no URL, continue.
LoopSkip ==
    /\ UNCHANGED pureVars
    /\ pc = "loop"
    /\ k \in 1..Len(NOTIFIERS)
    /\ ~Configured(env, NOTIFIERS[k])
    /\ k' = k + 1
    /\ UNCHANGED <<inputVars, pc, i, data, dispatchVars, fetchVars, completed,
                   acks, logged, faults>>

\* The wrapper runs up to its first await.  buildPayload throws: the catch
\* logs it, nothing is posted, and the wrapper's promise is pushed.
LoopBuildThrows ==
    /\ UNCHANGED pureVars
    /\ pc = "loop"
    /\ k \in 1..Len(NOTIFIERS)
    /\ Configured(env, NOTIFIERS[k])
    /\ faults < MaxFaults
    /\ faults' = faults + 1
    /\ LET p == NOTIFIERS[k] IN
         /\ attempts' = [attempts EXCEPT ![i][p] = @ + 1]
         /\ sendState' = [sendState EXCEPT ![i][p] = "threw"]
         /\ task' = [task EXCEPT ![i][p] = TaskOutcome("threw")]
         /\ logged' = logged \cup {Log("error", "sendFailed", i, p)}
    /\ k' = k + 1
    /\ UNCHANGED <<inputVars, pc, i, data, calls, payloadKind, fetchVars,
                   completed, acks>>

\* buildPayload returns and send() issues the POST; the wrapper suspends on
\* it and its promise is pushed.
LoopIssue ==
    /\ UNCHANGED pureVars
    /\ pc = "loop"
    /\ k \in 1..Len(NOTIFIERS)
    /\ Configured(env, NOTIFIERS[k])
    /\ LET p == NOTIFIERS[k] IN
         /\ attempts' = [attempts EXCEPT ![i][p] = @ + 1]
         /\ payloadKind' = [payloadKind EXCEPT ![i][p] = buildPayload(p, batch[i])]
         /\ calls' = [calls EXCEPT ![i][p] = @ + 1]
         /\ sendState' = [sendState EXCEPT ![i][p] = "pending"]
         /\ task' = [task EXCEPT ![i][p] = "pending"]
    /\ k' = k + 1
    /\ UNCHANGED <<inputVars, pc, i, data, fetchVars, completed, acks, logged,
                   faults>>

\* After the loop: warn and return when nothing was pushed, otherwise
\* await Promise.all(promises).  Either way the caller's await suspends.
LoopEnd ==
    /\ UNCHANGED pureVars
    /\ pc = "loop"
    /\ k = Len(NOTIFIERS) + 1
    /\ logged' = IF Promises(i) = {}
                 THEN logged \cup {Log("warn", "noWebhook", i, "")}
                 ELSE logged
    /\ pc' = "awaitAll"
    /\ UNCHANGED <<inputVars, i, k, data, dispatchVars, fetchVars, completed,
                   acks, faults>>

\* One outstanding POST settles while the handler is suspended; the wrapper
\* resumes, logs the result and its promise settles.
SettleSend ==
    /\ UNCHANGED pureVars
    /\ Suspended(pc)
    /\ \E m \in Msgs, p \in Platforms, resp \in Responses :
         /\ sendState[m][p] = "pending"
         /\ resp # "ok" => faults < MaxFaults
         /\ faults' = IF resp # "ok" THEN faults + 1 ELSE faults
         /\ sendState' = [sendState EXCEPT ![m][p] = SendResult(resp)]
         /\ task' = [task EXCEPT ![m][p] = TaskOutcome(SendResult(resp))]
         /\ logged' = logged \cup
              {IF SendResult(resp) = "ok" THEN Log("log", "sent", m, p)
                                          ELSE Log("error", "sendFailed", m, p)}
    /\ UNCHANGED <<inputVars, pc, i, k, data, attempts, calls, payloadKind,
                   fetchVars, completed, acks>>

\* Promise.all has settled: sendNotifications returns (or throws) and the
\* handler acknowledges the message.
ResumeAll ==
    /\ UNCHANGED pureVars
    /\ pc = "awaitAll"
    /\ PromiseAll(Promises(i)) # "pending"
    /\ IF PromiseAll(Promises(i)) = "fulfilled"
       THEN /\ completed' = [completed EXCEPT ![i] = "returned"]
            /\ acks' = Ack(acks, i)
            /\ i' = i + 1
            /\ pc' = "message"
            /\ UNCHANGED logged
       ELSE /\ completed' = [completed EXCEPT ![i] = "threw"]
            /\ Caught
    /\ UNCHANGED <<inputVars, k, data, dispatchVars, fetchVars, faults>>

\* The for-loop over batch.messages is exhausted.
Return ==
    /\ UNCHANGED pureVars
    /\ pc = "message"
    /\ i \notin Msgs
    /\ pc' = "returned"
    /\ UNCHANGED <<inputVars, i, k, data, dispatchVars, fetchVars, completed,
                   acks, logged, faults>>

Next ==
    \/ NoWebhookReturn
    \/ EnterLoop
    \/ SkipInvalid
    \/ TypeCheckRaises
    \/ SkipStartedQueued
    \/ BeginFetchUrls
    \/ BeginFetchLogs
    \/ DispatchWithoutFetch
    \/ FetchSettles
    \/ LoopSkip
    \/ LoopBuildThrows
    \/ LoopIssue
    \/ LoopEnd
    \/ SettleSend
    \/ ResumeAll
    \/ Return

Spec == Init /\ [][Next]_vars

\* Every awaited network call eventually settles and the handler's own
\* synchronous steps run.
FairSpec == Spec /\ WF_vars(Next)

(* ------------------------------ properties ----------------------------- *)

\* sendNotifications has ended for event m.
Dispatched(m) == completed[m] # "none"

\* C1: once the dispatch of an event has ended, every configured platform
\* whose own build-and-send did not fail has been posted exactly one payload
\* and its send has succeeded, whatever happened to its siblings.
C1_SiblingFailureIsolated ==
    \A m \in Msgs, p \in Platforms :
        (Dispatched(m) /\ p \in env /\ sendState[m][p] \notin {"failed", "threw"})
            => /\ sendState[m][p] = "ok"
               /\ calls[m][p] = 1
               /\ payloadKind[m][p] # "none"

\* Three platforms configured, one send failed, the other two succeeded.
C1_Witness ==
    \E m \in Msgs :
        /\ env = Platforms
        /\ completed[m] = "returned"
        /\ sendState[m]["Slack"] = "failed"
        /\ sendState[m]["Lark"] = "ok" /\ calls[m]["Lark"] = 1
        /\ sendState[m]["Discord"] = "ok" /\ calls[m]["Discord"] = 1

\* C2: neither the queue handler nor sendNotifications ever ends by raising
\* an exception.
C2_NeverRaises ==
    /\ pc # "raised"
    /\ \A m \in Msgs : completed[m] # "threw"

\* The handler returned from a batch in which one message raised inside the
\* try block and another had a builder exception and a failed send.
C2_Witness ==
    /\ pc = "returned"
    /\ \E m \in Msgs : Log("error", "processing", m, "") \in logged
    /\ \E m \in Msgs, p, q \in Platforms :
           sendState[m][p] = "threw" /\ sendState[m][q] = "failed"

\* C3: sendNotifications has not ended for an event while a send it issued
\* for that event is still pending.
C3_CompletesAfterAllSettle ==
    \A m \in Msgs, p \in Platforms :
        Dispatched(m) => sendState[m][p] # "pending"

\* One send has settled, another is still outstanding, and the dispatch of
\* the event is still waiting.
C3_Witness ==
    /\ pc = "awaitAll"
    /\ completed[i] = "none"
    /\ \E p, q \in Platforms :
           sendState[i][p] = "pending" /\ sendState[i][q] \in {"ok", "failed"}

\* C4: no send of an event settles before the build-and-send of every
\* configured platform has been started for that event.
C4_AllIssuedBeforeAnySettles ==
    \A m \in Msgs, p \in Platforms :
        sendState[m][p] \in {"ok", "failed"}
            => \A q \in env : task[m][q] # "none"

\* Slack's send is still outstanding while Lark's and Discord's, issued
\* after it, have both completed.
C4_Witness ==
    \E m \in Msgs :
        /\ sendState[m]["Slack"] = "pending"
        /\ sendState[m]["Lark"] = "ok"
        /\ sendState[m]["Discord"] = "ok"

\* C5: with no webhook URL configured there is no enrichment fetch and no
\* webhook call for any event, the handler goes straight to its return, and
\* by then the error is logged.
C5_NoWebhookNoNetwork ==
    env = {} =>
        /\ pc \in {"start", "returned"}
        /\ \A m \in Msgs :
              /\ urlFetches[m] = 0 /\ logFetches[m] = 0
              /\ \A p \in Platforms : calls[m][p] = 0 /\ attempts[m][p] = 0
        /\ pc = "returned" => Log("error", "noWebhook", 0, "") \in logged

\* The handler has returned from a two-message batch with a succeeded build
\* in it and no webhook configured.
C5_Witness ==
    /\ env = {}
    /\ pc = "returned"
    /\ Len(batch) = 2
    /\ batch[1] = Event("ok", "succeeded", "success")

\* C6: a platform is never sent a second attempt for an event; a platform
\* without a webhook URL gets none; and once the dispatch of an event has
\* ended every configured platform has had exactly one attempt, which posted
\* exactly one payload unless its builder threw.
C6_ExactlyOneAttempt ==
    \A m \in Msgs, p \in Platforms :
        /\ attempts[m][p] <= 1
        /\ calls[m][p] <= attempts[m][p]
        /\ p \notin env => attempts[m][p] = 0
        /\ (Dispatched(m) /\ p \in env)
              => /\ attempts[m][p] = 1
                 /\ sendState[m][p] # "threw" => calls[m][p] = 1

\* Only Lark configured: its single send failed, nothing was re-sent and the
\* other platforms got nothing.
C6_Witness ==
    \E m \in Msgs :
        /\ env = {"Lark"}
        /\ acks[m] = 1
        /\ sendState[m]["Lark"] = "failed"
        /\ calls[m] = [p \in Platforms |-> IF p = "Lark" THEN 1 ELSE 0]

\* C7: per event at most one enrichment call is made; fetchBuildUrls only
\* for a succeeded status, fetchBuildLogs only for a status that is failed
\* and not cancelled (and not succeeded), none for a cancelled build, and
\* once the event has been dispatched exactly the call its status asks for
\* has been made.
C7_FetchAtMostOnce ==
    \A m \in Msgs :
        LET st == getBuildStatus(batch[m]) IN
        /\ urlFetches[m] + logFetches[m] <= 1
        /\ urlFetches[m] = 1 => st.isSucceeded
        /\ logFetches[m] = 1 => st.isFailed /\ ~st.isCancelled /\ ~st.isSucceeded
        /\ batch[m].outcome = "cancelled" => urlFetches[m] + logFetches[m] = 0
        /\ Dispatched(m) =>
              /\ urlFetches[m] = 1 <=> st.isSucceeded
              /\ logFetches[m] = 1 <=> batch[m].outcome = "failure"

\* A cancelled build was notified without any fetch, next to a failed build
\* for which the logs were fetched.
C7_Witness ==
    \E m, n \in Msgs :
        /\ batch[m].outcome = "cancelled"
        /\ completed[m] = "returned"
        /\ urlFetches[m] = 0 /\ logFetches[m] = 0
        /\ logFetches[n] = 1 /\ urlFetches[n] = 0

\* C8: when the enrichment fetch of an event fails, the data handed to
\* sendNotifications has null URLs and no logs, and by the time the message
\* is acknowledged every configured platform has had its attempt.
C8_FetchFailureStillNotifies ==
    \A m \in Msgs :
        fetchResult[m] = "failed" =>
            /\ (m = i /\ pc \in {"loop", "awaitAll"}) => data = NoData
            /\ acks[m] >= 1 =>
                  /\ completed[m] = "returned"
                  /\ \A p \in env :
                        /\ attempts[m][p] = 1
                        /\ sendState[m][p] # "threw" => calls[m][p] = 1

\* The fetch failed and all three platforms were still sent the payload.
C8_Witness ==
    \E m \in Msgs :
        /\ env = Platforms
        /\ fetchResult[m] = "failed"
        /\ acks[m] = 1
        /\ \A p \in Platforms : sendState[m][p] = "ok" /\ calls[m][p] = 1

\* C9: no message is acknowledged twice, every message the loop has passed
\* is acknowledged, and when the handler has returned every message of the
\* batch has been acknowledged exactly once.
C9_AckedExactlyOnce ==
    /\ \A m \in Msgs : acks[m] <= 1
    /\ pc # "start" => \A m \in Msgs : m < i => acks[m] = 1
    /\ pc = "returned" => \A m \in Msgs : acks[m] = 1

\* Returned from a batch of a message that raised and a message that was
\* only partially delivered.
C9_Witness ==
    /\ pc = "returned"
    /\ Len(batch) = 2
    /\ batch[1].shape = "typeNotString"
    /\ \E p, q \in Platforms :
           sendState[2][p] = "failed" /\ sendState[2][q] = "ok"

\* C10: every payload posted for an event whose buildOutcome is "cancelled"
\* is of the Cancelled kind: titled "Build Cancelled", without an error
\* block.
C10_CancelledKind ==
    \A m \in Msgs, p \in Platforms :
        (batch[m].outcome = "cancelled" /\ payloadKind[m][p] # "none")
            => /\ payloadKind[m][p] = "cancelled"
               /\ \A prod \in BOOLEAN :
                      Title(payloadKind[m][p], prod) = "Build Cancelled"
               /\ ~HasErrorBlock(payloadKind[m][p])

\* The status tag as a triple <<isSucceeded, isFailed, isCancelled>>.
StatusOf(ev) ==
    <<getBuildStatus(ev).isSucceeded, getBuildStatus(ev).isFailed,
      getBuildStatus(ev).isCancelled>>

\* C11: for every event of the batch that reaches the classifier, outcome
\* "success" is classified succeeded only, outcome "cancelled" failed and
\* cancelled but not succeeded, an absent outcome as none of the three, and
\* cancelled always implies failed.
C11_StatusClassifier ==
    \A m \in Msgs :
        Notifiable(batch[m]) \/ IsSkipped(batch[m]) =>
            /\ batch[m].outcome = "success" => StatusOf(batch[m]) = <<TRUE, FALSE, FALSE>>
            /\ batch[m].outcome = "cancelled" => StatusOf(batch[m]) = <<FALSE, TRUE, TRUE>>
            /\ batch[m].outcome = "null" => StatusOf(batch[m]) = <<FALSE, FALSE, FALSE>>
            /\ getBuildStatus(batch[m]).isCancelled => getBuildStatus(batch[m]).isFailed

\* A batch of a cancelled and a succeeded build has been classified and
\* dispatched.
C11_Witness ==
    /\ Len(batch) = 2
    /\ batch[1].outcome = "cancelled" /\ batch[2].outcome = "success"
    /\ completed[1] = "returned" /\ completed[2] = "returned"
    /\ urlFetches[2] = 1

\* C12: a started or queued event causes no enrichment fetch and no attempt
\* on any platform, and when the handler has returned every notifiable event
\* of the batch has been dispatched all the same.
C12_StartedQueuedFiltered ==
    /\ \A m \in Msgs :
          (batch[m].shape = "ok" /\ batch[m].type \in {"started", "queued"}) =>
              /\ urlFetches[m] = 0 /\ logFetches[m] = 0
              /\ completed[m] = "none"
              /\ \A p \in Platforms : attempts[m][p] = 0 /\ calls[m][p] = 0
    /\ (pc = "returned" /\ env # {}) =>
          \A n \in Msgs :
              (batch[n].shape = "ok" /\ batch[n].type \notin {"started", "queued"})
                  => /\ completed[n] = "returned"
                     /\ \A p \in env : attempts[n][p] = 1

\* Returned from a batch of a queued event followed by a succeeded build that
\* Slack was notified of.
C12_Witness ==
    /\ pc = "returned"
    /\ Len(batch) = 2
    /\ batch[1] = Event("ok", "queued", "null")
    /\ acks[1] = 1
    /\ batch[2].outcome = "success"
    /\ sendState[2]["Slack"] = "ok"

\* C13: an event without type, payload or metadata causes no enrichment
\* fetch and no attempt on any platform, and once the loop has passed it the
\* invalid structure has been logged.
C13_MalformedSkipped ==
    \A m \in Msgs :
        batch[m].shape \in {"noType", "noPayload", "noMetadata"} =>
            /\ urlFetches[m] = 0 /\ logFetches[m] = 0
            /\ completed[m] = "none"
            /\ \A p \in Platforms : attempts[m][p] = 0 /\ calls[m][p] = 0
            /\ (env # {} /\ acks[m] >= 1) => Log("error", "invalid", m, "") \in logged

\* An event without payload was skipped and logged, and the failed build
\* after it was still sent to Discord.
C13_Witness ==
    /\ Len(batch) = 2
    /\ batch[1].shape = "noPayload"
    /\ Log("error", "invalid", 1, "") \in logged
    /\ batch[2].outcome = "failure"
    /\ sendState[2]["Discord"] = "ok"

\* C14: nothing of a later event (fetch, build or send) has been started
\* while a send of an earlier event of the batch is pending or the earlier
\* message is not yet acknowledged.
C14_EventsSequential ==
    \A m, n \in Msgs :
        (m < n /\ (urlFetches[n] + logFetches[n] > 0
                   \/ \E p \in Platforms : attempts[n][p] > 0))
            => /\ \A p \in Platforms : sendState[m][p] # "pending"
               /\ acks[m] = 1

\* The second event has a send outstanding after both sends of the first
\* event have settled.
C14_Witness ==
    /\ Len(batch) = 2
    /\ \E p, q \in Platforms :
          /\ p # q
          /\ sendState[1][p] = "ok" /\ sendState[1][q] = "failed"
    /\ \E p \in Platforms : sendState[2][p] = "pending"

(* ------------------- helpers.extractBuildError(logs) ------------------- *)

\* Longest log handed to the extractor.
MaxLogLen == 3

\* A log line is the sequence of its tokens; a line that starts with
\* whitespace has " " as its first token; the empty line has none.
LogLines ==
    { <<"Installing", "dependencies...">>,
      <<"CROSS", "[ERROR]", "Could not resolve">>,
      <<"CROSS", "[ERROR]", "Second error">>,
      <<" ", "at", "file.ts:10:5">>,
      <<"Total Upload:", "100 KiB">>,
      <<"Worker Startup Time:", "[ERROR]", "5ms">>,
      <<"0", "errors", "found">>,
      <<>> }

Logs == UNION { [1..n -> LogLines] : n \in 0..MaxLogLen }

\* The fixed fallback text.
NoLogsAvailable == <<"No logs available">>

\* The error-indicator pattern: the [ERROR] tag or the cross glyph.
IsErrorPattern(line) ==
    \E t \in 1..Len(line) : line[t] \in {"[ERROR]", "CROSS"}

\* The denylist: lines that report upload size or startup time.
IsMetadataLine(line) ==
    Len(line) > 0 /\ line[1] \in {"Total Upload:", "Worker Startup Time:"}

\* A stack-trace continuation: the line starts with whitespace.
IsContinuation(line) == Len(line) > 0 /\ line[1] = " "

IsErrorMarkerNoDenylist(line) == IsErrorPattern(line)

IsErrorMarker(line) == IsErrorPattern(line) /\ ~IsMetadataLine(line)

MarkerIndexes(logs) == {j \in 1..Len(logs) : IsErrorMarker(logs[j])}

Lowest(S) == CHOOSE x \in S : \A y \in S : x <= y

Highest(S) == CHOOSE x \in S : \A y \in S : y <= x

\* The block that starts at marker f: the marker and the continuation
\* lines right after it, up to the first line that is no continuation or
\* is the next marker.
BlockEnd(logs, f) ==
    Highest({e \in f..Len(logs) :
                \A j \in (f + 1)..e :
                    IsContinuation(logs[j]) /\ ~IsErrorMarker(logs[j])})

NonEmptyIndexes(logs) == {j \in 1..Len(logs) : logs[j] # <<>>}

FallbackFirstLine(logs) ==
    IF NonEmptyIndexes(logs) # {}
    THEN <<logs[Lowest(NonEmptyIndexes(logs))]>>
    ELSE <<NoLogsAvailable>>

\* No marker anywhere: the last non-empty line, or the fallback text.
Fallback(logs) ==
    IF NonEmptyIndexes(logs) # {}
    THEN <<logs[Highest(NonEmptyIndexes(logs))]>>
    ELSE <<NoLogsAvailable>>

extractBuildErrorLastBlock(logs) ==
    IF logs = <<>> THEN <<NoLogsAvailable>>
    ELSE IF MarkerIndexes(logs) # {}
    THEN SubSeq(logs, Highest(MarkerIndexes(logs)),
                BlockEnd(logs, Highest(MarkerIndexes(logs))))
    ELSE Fallback(logs)

\* The lines of the representative error.
extractBuildError(logs) ==
    IF logs = <<>> THEN <<NoLogsAvailable>>
    ELSE IF MarkerIndexes(logs) # {}
    THEN SubSeq(logs, Lowest(MarkerIndexes(logs)),
                BlockEnd(logs, Lowest(MarkerIndexes(logs))))
    ELSE Fallback(logs)

\* The queue handler at rest while a pure function is exercised.
QueueIdle ==
    /\ env = {} /\ batch = <<>> /\ pc = "idle" /\ i = 1 /\ k = 1
    /\ data = NoData
    /\ task = <<>> /\ sendState = <<>> /\ attempts = <<>> /\ calls = <<>>
    /\ payloadKind = <<>> /\ urlFetches = <<>> /\ logFetches = <<>>
    /\ fetchResult = <<>> /\ completed = <<>> /\ acks = <<>>
    /\ logged = {} /\ faults = 0

ExtractorInit ==
    /\ QueueIdle
    /\ nd = "none"
    /\ built = <<>>
    /\ logLines \in Logs
    /\ extracted = <<>>

\* One call of extractBuildError.
Extract ==
    /\ extracted = <<>>
    /\ extracted' = extractBuildError(logLines)
    /\ UNCHANGED <<queueVars, nd, built, logLines>>

ExtractorNext == Extract

ExtractorSpec == ExtractorInit /\ [][ExtractorNext]_vars

Lines(block) == {block[j] : j \in 1..Len(block)}

\* C18: for a log with at least one error marker the result starts with the
\* first marker line, is the run of lines that starts there, holds no other
\* marker line, and so contains the text of no later, different marker.
C18_FirstErrorOnly ==
    (extracted # <<>> /\ \E j \in 1..Len(logLines) : IsErrorPattern(logLines[j])
                                                   /\ ~IsMetadataLine(logLines[j]))
        => LET f == Lowest({j \in 1..Len(logLines) :
                              IsErrorPattern(logLines[j]) /\ ~IsMetadataLine(logLines[j])})
           IN /\ extracted[1] = logLines[f]
              /\ extracted = SubSeq(logLines, f, f + Len(extracted) - 1)
              /\ \A j \in 2..Len(extracted) : ~IsErrorPattern(extracted[j])
              /\ \A j \in (f + 1)..Len(logLines) :
                    (IsErrorPattern(logLines[j]) /\ ~IsMetadataLine(logLines[j])
                       /\ logLines[j] # logLines[f])
                        => logLines[j] \notin Lines(extracted)

\* "Could not resolve" with its stack line was returned and the "Second
\* error" after it left out.
C18_Witness ==
    /\ logLines = << <<"CROSS", "[ERROR]", "Could not resolve">>,
                     <<" ", "at", "file.ts:10:5">>,
                     <<"CROSS", "[ERROR]", "Second error">> >>
    /\ extracted = << <<"CROSS", "[ERROR]", "Could not resolve">>,
                      <<" ", "at", "file.ts:10:5">> >>

\* C19: the empty log gives exactly the fallback text; a log without any
\* error marker gives its last non-empty line, and the fallback text when
\* all its lines are empty.
C19_FallbackText ==
    extracted # <<>> =>
        /\ logLines = <<>> => extracted = <<NoLogsAvailable>>
        /\ (logLines # <<>> /\ \A j \in 1..Len(logLines) :
                                  ~IsErrorPattern(logLines[j]) \/ IsMetadataLine(logLines[j]))
              => IF \A j \in 1..Len(logLines) : logLines[j] = <<>>
                 THEN extracted = <<NoLogsAvailable>>
                 ELSE \E l \in 1..Len(logLines) :
                         /\ logLines[l] # <<>>
                         /\ \A j \in (l + 1)..Len(logLines) : logLines[j] = <<>>
                         /\ extracted = <<logLines[l]>>

\* A log without marker whose last non-empty line is followed by an empty
\* one.
C19_Witness ==
    /\ logLines = << <<"Installing", "dependencies...">>,
                     <<"0", "errors", "found">>, <<>> >>
    /\ extracted = << <<"0", "errors", "found">> >>

\* C20: when the log has a real error line, the result starts with a real
\* error line and holds no upload-size or startup-time line, whatever
\* metadata lines precede the error.
C20_MetadataNeverChosen ==
    (extracted # <<>> /\ \E j \in 1..Len(logLines) :
                            IsErrorPattern(logLines[j]) /\ ~IsMetadataLine(logLines[j]))
        => /\ IsErrorPattern(extracted[1])
           /\ \A j \in 1..Len(extracted) : ~IsMetadataLine(extracted[j])

\* Two metadata lines, one of them carrying the [ERROR] tag, precede the
\* real error, which is what was returned.
C20_Witness ==
    /\ logLines = << <<"Total Upload:", "100 KiB">>,
                     <<"Worker Startup Time:", "[ERROR]", "5ms">>,
                     <<"CROSS", "[ERROR]", "Could not resolve">> >>
    /\ extracted = << <<"CROSS", "[ERROR]", "Could not resolve">> >>

(* ----------------------- payload builders ------------------------------ *)

\* Texts the builders cut or split are sequences of characters; an absent
\* (or empty) text is the empty sequence.  URLs are sequences of their
\* parts; null is the empty sequence.
CommitHashes ==
    { <<>>,
      <<"a", "b", "c", "1", "2">>,
      <<"a", "b", "c", "1", "2", "3", "d", "e", "f", "4", "5", "6">> }

Authors ==
    { <<>>,
      <<"d", "e", "v", "@", "e", "x", ".", "c", "o", "m">>,
      <<"J", "a", "n", "e", " ", "D", "o", "e">> }

Branches == {"", "main", "feature/x", "mainline"}

PreviewUrls == {<<>>, <<"preview.workers.dev">>}

LiveUrls == {<<>>, <<"live.workers.dev">>}

BuilderLogs ==
    { <<>>,
      << <<"Installing", "dependencies...">>,
         <<"CROSS", "[ERROR]", "Could not resolve">>,
         <<"CROSS", "[ERROR]", "Second error">> >> }

\* The events that reach a builder, with the parts of payload and metadata
\* the builders read.  An absent buildTriggerMetadata is the event whose
\* branch, commitHash, author and repoName are all absent.
BuilderEvents ==
    [ type : {"succeeded", "failed", "other"},
      outcome : {"success", "failure", "cancelled", "null"},
      workerName : {"test-worker"},
      hasTriggerMetadata : BOOLEAN,
      branch : Branches,
      commitHash : CommitHashes,
      author : Authors,
      repoName : {"", "my-worker"},
      accountId : {"", "account-xyz"},
      buildUuid : {"build-123"} ]

ConsistentEvent(ev) ==
    /\ \/ ev.type = "succeeded" /\ ev.outcome = "success"
       \/ ev.type = "failed" /\ ev.outcome \in {"failure", "cancelled"}
       \/ ev.type = "other" /\ ev.outcome = "null"
    /\ ~ev.hasTriggerMetadata =>
           ev.branch = "" /\ ev.commitHash = <<>> /\ ev.author = <<>>

NotificationDatas ==
    { d \in [ event : BuilderEvents, previewUrl : PreviewUrls,
              liveUrl : LiveUrls, logs : BuilderLogs ] :
        /\ ConsistentEvent(d.event)
        /\ d.event.outcome # "success" => d.previewUrl = <<>> /\ d.liveUrl = <<>>
        /\ d.event.outcome # "failure" => d.logs = <<>> }

\* a || b on texts and URLs
Or(a, b) == IF a # <<>> THEN a ELSE b

\* The production branch name.
ProductionBranch == "main"

\* helpers.isProductionBranch
isProductionBranch(branch) == branch = ProductionBranch

\* helpers.extractAuthorName: the part before "@" of an email-like text,
\* any other text as it is.
extractAuthorName(author) ==
    IF \E j \in 1..Len(author) : author[j] = "@"
    THEN SubSeq(author, 1, Lowest({j \in 1..Len(author) : author[j] = "@"}) - 1)
    ELSE author

\* helpers.getCommitUrl: the commit view of the source host, when the
\* repository and the commit are known.
getCommitUrl(ev) ==
    IF ev.repoName # "" /\ ev.commitHash # <<>>
    THEN <<"github.com", ev.repoName, "commit">>
    ELSE <<>>

\* helpers.getDashboardUrl: built from accountId and buildUuid.
getDashboardUrl(ev) ==
    IF ev.accountId # "" /\ ev.buildUuid # ""
    THEN <<"dash.cloudflare.com", ev.accountId, ev.buildUuid>>
    ELSE <<>>

MetaAccessUnguarded(ev) ==
    IF ev.hasTriggerMetadata THEN "read" ELSE "TypeError"

\* event.payload?.buildTriggerMetadata, meta?.branch, meta?.commitHash,
\* meta?.author: with optional chaining a field of absent metadata reads as
\* undefined; a plain meta.branch would raise a TypeError.
MetaAccess(ev) ==
    IF ev.hasTriggerMetadata THEN "read" ELSE "undefined"

\* What a builder that raised leaves its caller with.
Thrown == [kind |-> "threw"]

\* commitHash.substring(0, 7)
CommitPrefixLen == 7

substring(text, n) == SubSeq(text, 1, IF Len(text) < n THEN Len(text) ELSE n)

NoMetadata ==
    [branch |-> [shown |-> FALSE, text |-> ""],
     commit |-> [shown |-> FALSE, text |-> <<>>, link |-> <<>>],
     author |-> [shown |-> FALSE, text |-> <<>>]]

\* slack.ts buildContextElements: branch, commit and author, each pushed
\* only when it has a value.
buildContextElements(ev) ==
    [branch |-> [shown |-> ev.branch # "", text |-> ev.branch],
     commit |-> [shown |-> ev.commitHash # <<>>,
                 text  |-> substring(ev.commitHash, CommitPrefixLen),
                 link  |-> IF ev.commitHash # <<>> THEN getCommitUrl(ev) ELSE <<>>],
     author |-> [shown |-> extractAuthorName(ev.author) # <<>>,
                 text  |-> extractAuthorName(ev.author)]]

\* discord.ts buildMetadataFields: the same three, as embed fields.
buildMetadataFields(ev) ==
    [branch |-> [shown |-> ev.branch # "", text |-> ev.branch],
     commit |-> [shown |-> ev.commitHash # <<>>,
                 text  |-> substring(ev.commitHash, CommitPrefixLen),
                 link  |-> IF ev.commitHash # <<>> THEN getCommitUrl(ev) ELSE <<>>],
     author |-> [shown |-> extractAuthorName(ev.author) # <<>>,
                 text  |-> extractAuthorName(ev.author)]]

\* slack.ts buildSectionBlock: the accessory button exists only with both a
\* text and a URL.
buildSectionBlock(buttonText, buttonUrl) ==
    IF buttonText # "" /\ buttonUrl # <<>>
    THEN [text |-> buttonText, url |-> buttonUrl]
    ELSE [text |-> "", url |-> <<>>]

SlackButtonUrlAnyDeployUrl(isProduction, previewUrl, liveUrl, dashUrl) ==
    IF isProduction THEN Or(liveUrl, Or(previewUrl, dashUrl))
                    ELSE Or(previewUrl, Or(liveUrl, dashUrl))

\* isProduction ? liveUrl || dashUrl : previewUrl || dashUrl
SlackButtonUrl(isProduction, previewUrl, liveUrl, dashUrl) ==
    IF isProduction THEN Or(liveUrl, dashUrl) ELSE Or(previewUrl, dashUrl)

\* isProduction ? liveUrl || dashUrl : previewUrl || dashUrl
DiscordEmbedUrl(isProduction, previewUrl, liveUrl, dashUrl) ==
    IF isProduction THEN Or(liveUrl, dashUrl) ELSE Or(previewUrl, dashUrl)

SlackSuccessMessage(ev, isProduction, previewUrl, liveUrl) ==
    [kind |-> "succeeded",
     title |-> Title("succeeded", isProduction),
     text |-> ev.workerName,
     button |-> buildSectionBlock(
         IF isProduction
         THEN (IF liveUrl # <<>> THEN "View Worker" ELSE "View Build")
         ELSE (IF previewUrl # <<>> THEN "View Preview" ELSE "View Build"),
         SlackButtonUrl(isProduction, previewUrl, liveUrl, getDashboardUrl(ev))),
     context |-> buildContextElements(ev),
     error |-> <<>>]

SlackFailureMessage(ev, logs) ==
    [kind |-> "failed",
     title |-> Title("failed", FALSE),
     text |-> ev.workerName,
     button |-> buildSectionBlock(
         IF getDashboardUrl(ev) # <<>> THEN "View Logs" ELSE "",
         getDashboardUrl(ev)),
     context |-> buildContextElements(ev),
     error |-> extractBuildError(logs)]

SlackCancelledMessage(ev) ==
    [kind |-> "cancelled",
     title |-> Title("cancelled", FALSE),
     text |-> ev.workerName,
     button |-> buildSectionBlock(
         IF getDashboardUrl(ev) # <<>> THEN "View Build" ELSE "",
         getDashboardUrl(ev)),
     context |-> buildContextElements(ev),
     error |-> <<>>]

\* A single section with the raw event type.
SlackFallbackMessage(ev) ==
    [kind |-> "fallback",
     title |-> "",
     text |-> ev.type,
     button |-> buildSectionBlock("", <<>>),
     context |-> NoMetadata,
     error |-> <<>>]

\* SlackNotifier.buildPayload
SlackPayload(d) ==
    LET kind == SlackKind(getBuildStatus(d.event)) IN
    IF MetaAccess(d.event) = "TypeError" THEN Thrown ELSE
    CASE kind = "succeeded" ->
           SlackSuccessMessage(d.event, isProductionBranch(d.event.branch),
                               d.previewUrl, d.liveUrl)
      [] kind = "failed"    -> SlackFailureMessage(d.event, d.logs)
      [] kind = "cancelled" -> SlackCancelledMessage(d.event)
      [] kind = "fallback"  -> SlackFallbackMessage(d.event)

NoField == [name |-> "", link |-> <<>>]

DiscordSuccessMessage(ev, isProduction, previewUrl, liveUrl) ==
    [kind |-> "succeeded",
     title |-> Title("succeeded", isProduction),
     text |-> ev.workerName,
     url |-> DiscordEmbedUrl(isProduction, previewUrl, liveUrl, getDashboardUrl(ev)),
     context |-> buildMetadataFields(ev),
     field |-> IF isProduction /\ liveUrl # <<>>
               THEN [name |-> "Worker URL", link |-> liveUrl]
               ELSE IF ~isProduction /\ previewUrl # <<>>
               THEN [name |-> "Preview URL", link |-> previewUrl]
               ELSE NoField,
     error |-> <<>>]

\* The error texts here are far shorter than the 1000 characters
\* error.substring(0, 1000) keeps, so the cut leaves them whole.
DiscordFailureMessage(ev, logs) ==
    [kind |-> "failed",
     title |-> Title("failed", FALSE),
     text |-> ev.workerName,
     url |-> <<>>,
     context |-> buildMetadataFields(ev),
     field |-> IF getDashboardUrl(ev) # <<>>
               THEN [name |-> "Logs", link |-> getDashboardUrl(ev)]
               ELSE NoField,
     error |-> extractBuildError(logs)]

DiscordCancelledMessage(ev) ==
    [kind |-> "cancelled",
     title |-> Title("cancelled", FALSE),
     text |-> ev.workerName,
     url |-> <<>>,
     context |-> buildMetadataFields(ev),
     field |-> IF getDashboardUrl(ev) # <<>>
               THEN [name |-> "Build Details", link |-> getDashboardUrl(ev)]
               ELSE NoField,
     error |-> <<>>]

DiscordFallbackMessage(ev) ==
    [kind |-> "fallback",
     title |-> Title("fallback", FALSE),
     text |-> ev.type,
     url |-> <<>>,
     context |-> NoMetadata,
     field |-> NoField,
     error |-> <<>>]

\* DiscordNotifier.buildPayload
DiscordPayload(d) ==
    LET kind == DiscordKind(getBuildStatus(d.event)) IN
    IF MetaAccess(d.event) = "TypeError" THEN Thrown ELSE
    CASE kind = "succeeded" ->
           DiscordSuccessMessage(d.event, isProductionBranch(d.event.branch),
                                 d.previewUrl, d.liveUrl)
      [] kind = "failed"    -> DiscordFailureMessage(d.event, d.logs)
      [] kind = "cancelled" -> DiscordCancelledMessage(d.event)
      [] kind = "fallback"  -> DiscordFallbackMessage(d.event)

\* LarkNotifier.buildPayload: the same content as a card.
LarkPayload(d) ==
    LET kind == LarkKind(getBuildStatus(d.event))
        prod == isProductionBranch(d.event.branch)
        dash == getDashboardUrl(d.event)
    IN IF MetaAccess(d.event) = "TypeError" THEN Thrown ELSE
       [kind |-> kind,
        title |-> Title(kind, kind = "succeeded" /\ prod),
        text |-> IF kind = "fallback" THEN d.event.type ELSE d.event.workerName,
        url |-> CASE kind = "succeeded" ->
                       IF prod THEN Or(d.liveUrl, dash) ELSE Or(d.previewUrl, dash)
                  [] kind \in {"failed", "cancelled"} -> dash
                  [] kind = "fallback" -> <<>>,
        context |-> IF kind = "fallback" THEN NoMetadata
                    ELSE buildContextElements(d.event),
        error |-> IF kind = "failed" THEN extractBuildError(d.logs) ELSE <<>>]

NotBuilt == [kind |-> "none"]

BuilderInit ==
    /\ QueueIdle
    /\ nd \in NotificationDatas
    /\ built = [p \in Platforms |-> NotBuilt]
    /\ logLines = <<>>
    /\ extracted = <<>>

BuildSlack ==
    /\ built["Slack"] = NotBuilt
    /\ built' = [built EXCEPT !["Slack"] = SlackPayload(nd)]
    /\ UNCHANGED <<queueVars, nd, logLines, extracted>>

BuildLark ==
    /\ built["Lark"] = NotBuilt
    /\ built' = [built EXCEPT !["Lark"] = LarkPayload(nd)]
    /\ UNCHANGED <<queueVars, nd, logLines, extracted>>

BuildDiscord ==
    /\ built["Discord"] = NotBuilt
    /\ built' = [built EXCEPT !["Discord"] = DiscordPayload(nd)]
    /\ UNCHANGED <<queueVars, nd, logLines, extracted>>

BuilderNext == BuildSlack \/ BuildLark \/ BuildDiscord

BuilderSpec == BuilderInit /\ [][BuilderNext]_vars

\* The platforms whose payload has been built.
Built == {p \in Platforms : built[p] # NotBuilt}

\* The primary action link of a payload: Slack's button, the URL of the
\* Discord embed or of the Lark card.
ActionLink(p) == IF p = "Slack" THEN built[p].button.url ELSE built[p].url

(* C15: a success notification is titled "Production Deploy" when the
   build's branch is the production branch "main", and "Preview Deploy"
   for every other branch, on every platform. *)
C15_DeployTitleByBranch ==
    \A p \in Built :
        built[p].kind = "succeeded" =>
            /\ nd.event.branch = "main" => built[p].title = "Production Deploy"
            /\ nd.event.branch \notin {"", "main"} =>
                   built[p].title = "Preview Deploy"

C15_Witness ==
    /\ Built = Platforms
    /\ nd.event.branch = "mainline"
    /\ \A p \in Platforms : built[p].title = "Preview Deploy"

\* The deploy URL the production flag selects: liveUrl for a production
\* build, previewUrl for any other.
SelectedUrl == IF isProductionBranch(nd.event.branch) THEN nd.liveUrl ELSE nd.previewUrl

(* C16, as stated: the primary action link of a success notification is
   liveUrl for production and previewUrl otherwise, and it is the dashboard
   URL only when neither liveUrl nor previewUrl is available. *)
C16_DashboardOnlyWhenNeither ==
    \A p \in Built :
        built[p].kind = "succeeded" =>
            /\ SelectedUrl # <<>> => ActionLink(p) = SelectedUrl
            /\ ( /\ getDashboardUrl(nd.event) # <<>>
                 /\ ActionLink(p) = getDashboardUrl(nd.event) )
               => nd.liveUrl = <<>> /\ nd.previewUrl = <<>>

(* C16, amended: the primary action link of a success notification is the
   URL the production flag selects (liveUrl for production, previewUrl
   otherwise) when that URL is available, and the dashboard URL whenever it
   is not, whether or not the other deploy URL is available. *)
C16_DashboardWhenSelectedMissing ==
    \A p \in Built :
        built[p].kind = "succeeded" =>
            ActionLink(p) = Or(SelectedUrl, getDashboardUrl(nd.event))

C16_Witness ==
    /\ Built = Platforms
    /\ nd.event.outcome = "success"
    /\ isProductionBranch(nd.event.branch)
    /\ nd.liveUrl = <<>>
    /\ nd.previewUrl # <<>>
    /\ getDashboardUrl(nd.event) # <<>>
    /\ \A p \in Platforms : ActionLink(p) = getDashboardUrl(nd.event)

(* C17: for the same notification data the three platforms pick the same
   kind of notification and show the same branch, the same first seven
   characters of the commit and the same author. *)
C17_PlatformsAgree ==
    \A p, q \in Built :
        /\ built[p].kind = built[q].kind
        /\ built[p].context = built[q].context

MessageKinds == {"succeeded", "failed", "cancelled", "fallback"}

\* The accessory button, the embed URL and the link field are all left out.
NoActionIn(p) ==
    /\ ActionLink(p) = <<>>
    /\ p = "Slack" => built[p].button.text = ""
    /\ p = "Discord" => built[p].field = NoField

(* C21: no builder raises for any notification data: every payload built is
   one of the four message kinds; with buildTriggerMetadata absent none of
   branch, commit and author is rendered; with previewUrl and liveUrl null
   a success links to the dashboard URL; and with no dashboard URL either
   the button, embed URL and link field are left out. *)
C21_BuildNeverThrows ==
    \A p \in Built :
        /\ built[p].kind \in MessageKinds
        /\ ~nd.event.hasTriggerMetadata => built[p].context = NoMetadata
        /\ (nd.previewUrl = <<>> /\ nd.liveUrl = <<>> /\ built[p].kind = "succeeded")
              => ActionLink(p) = getDashboardUrl(nd.event)
        /\ (nd.previewUrl = <<>> /\ nd.liveUrl = <<>>
            /\ getDashboardUrl(nd.event) = <<>>) => NoActionIn(p)

\* A succeeded build without trigger metadata, deploy URLs or dashboard URL
\* was built on all three platforms.
C21_Witness ==
    /\ Built = Platforms
    /\ ~nd.event.hasTriggerMetadata
    /\ nd.event.outcome = "success"
    /\ nd.previewUrl = <<>> /\ nd.liveUrl = <<>>
    /\ getDashboardUrl(nd.event) = <<>>
    /\ \A p \in Platforms : built[p].kind = "succeeded" /\ NoActionIn(p)

(* ---------------- the handler on one event of each class --------------- *)

\* One event of each class the handler tells apart: invalid, raising,
\* skipped, succeeded, failed, cancelled.
CoreEvents ==
    { Event("noType", "none", "null"),
      Event("typeNotString", "none", "success"),
      Event("ok", "queued", "null"),
      Event("ok", "succeeded", "success"),
      Event("ok", "failed", "failure"),
      Event("ok", "failed", "cancelled") }

CoreInit == Init /\ \A m \in 1..Len(batch) : batch[m] \in CoreEvents

CoreSpec == CoreInit /\ [][Next]_vars

\* Every awaited network call eventually settles and the handler's own
\* synchronous steps run.
LiveSpec == CoreSpec /\ WF_vars(Next)

\* The processing of message m met an error: an invalid structure, an
\* exception in the try block, a failed fetch, a builder exception or a
\* failed send.
Erroneous(m) ==
    \/ ~IsValid(batch[m])
    \/ TypeCheckThrows(batch[m])
    \/ fetchResult[m] = "failed"
    \/ \E p \in Platforms : sendState[m][p] \in {"failed", "threw"}

(* C22: after an error in the processing of one message the handler does
   not end by raising, and when it has returned every later message of the
   batch has been acknowledged and, if notifiable, dispatched with one
   attempt, and unless the builder threw one POST, on every configured
   platform. *)
C22_LaterMessagesProcessed ==
    \A m, n \in Msgs :
        (env # {} /\ m < n /\ Erroneous(m)) =>
            /\ pc # "raised"
            /\ pc = "returned" =>
                  /\ acks[n] = 1
                  /\ Notifiable(batch[n]) =>
                        /\ completed[n] = "returned"
                        /\ \A p \in env :
                              /\ attempts[n][p] = 1
                              /\ sendState[n][p] # "threw" => calls[n][p] = 1

\* The first message raised in the try block; the succeeded build after it
\* reached all three platforms.
C22_Witness ==
    /\ pc = "returned"
    /\ env = Platforms
    /\ Len(batch) = 2
    /\ Log("error", "processing", 1, "") \in logged
    /\ batch[2].outcome = "success"
    /\ \A p \in Platforms : sendState[2][p] = "ok" /\ calls[2][p] = 1

(* C23: a platform whose buildPayload threw for an event has issued no
   webhook call for it and the failure is logged; once the dispatch of the
   event has ended it ended by returning, and every other configured
   platform has had its one attempt and, unless its own builder threw, one
   POST. *)
C23_BuilderExceptionIsolated ==
    \A m \in Msgs, p \in Platforms :
        sendState[m][p] = "threw" =>
            /\ calls[m][p] = 0
            /\ payloadKind[m][p] = "none"
            /\ Log("error", "sendFailed", m, p) \in logged
            /\ Dispatched(m) =>
                  /\ completed[m] = "returned"
                  /\ \A q \in env \ {p} :
                        /\ attempts[m][q] = 1
                        /\ sendState[m][q] # "threw" =>
                              calls[m][q] = 1 /\ payloadKind[m][q] # "none"

\* Lark's builder threw; Slack and Discord were each sent one payload and
\* the dispatch returned.
C23_Witness ==
    \E m \in Msgs :
        /\ env = Platforms
        /\ completed[m] = "returned"
        /\ sendState[m]["Lark"] = "threw" /\ calls[m]["Lark"] = 0
        /\ sendState[m]["Slack"] = "ok" /\ calls[m]["Slack"] = 1
        /\ sendState[m]["Discord"] = "ok" /\ calls[m]["Discord"] = 1

(* C24: when a notifiable message has been acknowledged (with a webhook
   configured) its enrichment fetch, if it needed one, has returned, no send
   for it is pending, every configured platform has already had its attempt
   and the handler has moved past the message, so that no send for it can
   still be issued. *)
C24_AckAfterSendsSettle ==
    \A m \in Msgs :
        (env # {} /\ Notifiable(batch[m]) /\ acks[m] >= 1) =>
            /\ (NeedsUrls(getBuildStatus(batch[m])) \/ NeedsLogs(getBuildStatus(batch[m])))
                  => fetchResult[m] # "none"
            /\ ~(pc = "awaitFetch" /\ i = m)
            /\ \A p \in Platforms :
                  /\ sendState[m][p] # "pending"
                  /\ attempts[m][p] = IF p \in env THEN 1 ELSE 0
            /\ i > m

\* The first message was acknowledged after its fetch and both of its sends
\* had settled, and the handler is now waiting on a send of the second.
C24_Witness ==
    /\ Len(batch) = 2
    /\ acks[1] = 1 /\ acks[2] = 0
    /\ fetchResult[1] = "ok"
    /\ \E p, q \in Platforms :
          p # q /\ sendState[1][p] = "ok" /\ sendState[1][q] = "failed"
    /\ pc = "awaitAll"
    /\ \E p \in Platforms : sendState[2][p] = "pending"

(* C25: when every fetch and every send eventually settles, the handler
   eventually returns with every message of the batch acknowledged. *)
C25_HandlerReturns ==
    <>(pc = "returned" /\ \A m \in Msgs : acks[m] = 1)

\* Returned, everything acknowledged, after a failed fetch and a failed send.
C25_Witness ==
    /\ pc = "returned"
    /\ Len(batch) = 2
    /\ \A m \in Msgs : acks[m] = 1
    /\ \E m \in Msgs : fetchResult[m] = "failed"
    /\ \E m \in Msgs, p \in Platforms : sendState[m][p] = "failed"

====
